---- MODULE Spec2Model ----
(***************************************************************************)
(* Model of app.py, the Streamlit front end of the fraud-detection API.     *)
(* One run of the script is: resolve the category list (tab 1, lines       *)
(* 46-64), the prediction form and its button (lines 65-189), the model    *)
(* statistics tab (lines 194-265).  Streamlit executes the body of both    *)
(* tabs in every run and re-runs the script from the top on every user     *)
(* interaction.                                                            *)
(*                                                                         *)
(* Probabilities are integers in units of 1/10000 (0.70 is 7000).          *)
(* A JSON value is a record [t, n, s, items]; a JSON object is a function  *)
(* from the keys it holds to JSON values, so an absent key is a key that   *)
(* is not in its DOMAIN.  A widget put on the page is a record             *)
(* [kind, msg, str, num]: the streamlit call, the fixed part of its text,  *)
(* and the string and the number formatted into it.                        *)
(***************************************************************************)
EXTENDS Integers, Sequences, FiniteSets, TLC

VARIABLES pc, categories, options, category, pressed, posts, tab1, tab2,
          uncaught, catResp, predResp, infoResp, logResp

vars == <<pc, categories, options, category, pressed, posts, tab1, tab2,
          uncaught, catResp, predResp, infoResp, logResp>>

\* ------------------------------------------------------------------ bounds
\* longest category_classes list the backend is made to return
MaxCats == 2
\* longest drift_warnings list the backend is made to return
MaxWarnings == 1

\* ------------------------------------------------------------- JSON values
Num(n) == [t |-> "num", n |-> n, s |-> "", items |-> <<>>]
Str(s) == [t |-> "str", n |-> 0, s |-> s, items |-> <<>>]
List(q) == [t |-> "list", n |-> 0, s |-> "", items |-> q]
\* the metrics object: one list of `cols` floats for each of `rows` model names
Table(rows, cols) == [t |-> "table", n |-> rows, s |-> "", items |-> [i \in 1..cols |-> "float"]]
Null == [t |-> "null", n |-> 0, s |-> "", items |-> <<>>]

\* the JSON objects over the keys K of spec, a function key -> set of values:
\* each key absent, or present with one of its values
RECURSIVE ObjectsOver(_, _)
ObjectsOver(spec, K) ==
    IF K = {} THEN {<<>>}
    ELSE LET k == CHOOSE x \in K : TRUE
             rest == ObjectsOver(spec, K \ {k})
         IN rest \cup {d @@ (k :> v) : d \in rest, v \in spec[k]}

ObjectsOf(spec) == ObjectsOver(spec, DOMAIN spec)

\* a parsed body: a JSON object, a JSON document that is no object, or a
\* body response.json() cannot parse
Dict(d) == [t |-> "dict", d |-> d]
NonDict == [t |-> "list", d |-> <<>>]
Invalid == [t |-> "invalid", d |-> <<>>]

\* ---------------------------------------------------------------- responses
NoResp == [kind |-> "none", exc |-> "", status |-> 0, text |-> "", json |-> Invalid]
Raised(e) == [kind |-> "exc", exc |-> e, status |-> 0, text |-> "", json |-> Invalid]
Http(st, tx, j) == [kind |-> "http", exc |-> "", status |-> st, text |-> tx, json |-> j]

\* what requests.get / requests.post raise: ConnectTimeout derives from both
\* ConnectionError and Timeout, ReadTimeout from Timeout alone;
\* TooManyRedirects is a RequestException that is neither
Exceptions == {"ConnectTimeout", "ReadTimeout", "ConnectionError", "TooManyRedirects"}

IsConnectionError(e) == e \in {"ConnectionError", "ConnectTimeout"}

IsTimeout(e) == e \in {"ReadTimeout", "ConnectTimeout"}

Failures == {Raised(e) : e \in Exceptions}
              \cup {Http(500, "Internal Server Error", Invalid),
                    Http(404, "{\"detail\":\"Not Found\"}", Dict(<<>>))}

\* ------------------------------------------------------------------ widgets
W(kind, msg, str, num) == [kind |-> kind, msg |-> msg, str |-> str, num |-> num]

\* the number of a widget that formats no number
NoNum == 0 - 1

\* dict.get(key, default) and dict[key]
Has(d, k) == k \in DOMAIN d

Get(d, k, default) == IF Has(d, k) THEN d[k] ELSE default

\* str(v) as an f-string formats a JSON value (the digits of a number and
\* the elements of a container are not spelled out)
PyStr(v) ==
    CASE v.t = "str" -> v.s
      [] v.t = "null" -> "None"
      [] v.t = "num" -> "number"
      [] OTHER -> "container"

\* truthiness of a JSON value (bool(v))
Truthy(v) ==
    CASE v.t = "str" -> v.s # ""
      [] v.t = "null" -> FALSE
      [] v.t = "num" -> v.n # 0
      [] v.t = "table" -> v.n > 0
      [] OTHER -> Len(v.items) > 0

\* ------------------------------------------------------ category resolution
FallbackCategories ==
    << "Grocery", "Electronics", "Clothing", "Restaurant/Cafeteria",
       "Cash Withdrawal", "Health/Beauty", "Domestic Transport",
       "Sports/Outdoors", "Holliday/Travel", "Jewelery" >>

\* position of a name in the code-point order python's sorted() uses on str
CodePointRank ==
    ("Books" :> 1) @@ ("Cash Withdrawal" :> 2) @@ ("Clothing" :> 3)
    @@ ("Domestic Transport" :> 4) @@ ("Electronics" :> 5) @@ ("Grocery" :> 6)
    @@ ("Health/Beauty" :> 7) @@ ("Holliday/Travel" :> 8) @@ ("Jewelery" :> 9)
    @@ ("Restaurant/Cafeteria" :> 10) @@ ("Sports/Outdoors" :> 11) @@ ("Toys" :> 12)

StrLeq(a, b) == CodePointRank[a] <= CodePointRank[b]

RECURSIVE Insert(_, _)
Insert(x, q) ==
    IF q = <<>> THEN <<x>>
    ELSE IF StrLeq(x, Head(q)) THEN <<x>> \o q
    ELSE <<Head(q)>> \o Insert(x, Tail(q))

RECURSIVE Sorted(_)
Sorted(q) == IF q = <<>> THEN <<>> ELSE Insert(Head(q), Sorted(Tail(q)))

\* lines 47-54: the value the try block leaves in `categories`; the bare
\* except catches whatever the fetch, the parse or the .get raises
Fetched(r) ==
    IF r.kind = "exc" THEN List(<<>>)
    ELSE IF r.status # 200 THEN List(<<>>)
    ELSE IF r.json.t # "dict" THEN List(<<>>)
    ELSE Get(r.json.d, "category_classes", List(<<>>))

\* lines 57-62: `if not categories:` replaces a falsy value by the fallback
Categories(r) ==
    IF ~Truthy(Fetched(r)) THEN List(FallbackCategories) ELSE Fetched(r)

\* line 64: sorted(categories) raises TypeError on a value that is not
\* iterable; on a list of str it is the list in code-point order
Sortable(v) == v.t = "list"

OptionsUnsorted(v) == v.items

Options(v) == Sorted(v.items)

\* ---------------------------------------------------------------- scoring
\* a rendering in progress: the widgets put so far and the exception that
\* ended it ("" when it ran to its end)
Done(out) == [out |-> out, exc |-> ""]
Raise(out, e) == [out |-> out, exc |-> e]
Then(a, b) == IF a.exc # "" THEN a ELSE [out |-> a.out \o b.out, exc |-> b.exc]

\* line 123
VerdictSwapped(result) ==
    Get(result, "ensemble_verdict", Get(result, "verdict", Str("Unknown")))

Verdict(result) ==
    Get(result, "verdict", Get(result, "ensemble_verdict", Str("Unknown")))

\* line 124: result['ensemble_probability'], a KeyError when the key is absent
EnsembleProbabilityDefault(result) ==
    [ok |-> TRUE, v |-> Get(result, "ensemble_probability", Num(0))]

EnsembleProbability(result) ==
    IF Has(result, "ensemble_probability")
    THEN [ok |-> TRUE, v |-> result["ensemble_probability"]]
    ELSE [ok |-> FALSE, v |-> Null]

\* lines 126-133: the streamlit call that shows the verdict
CriticalMin == 7000
WarningMin == 5000
InfoMin == 3000

SeverityLevelStrict(prob) ==
    IF prob > CriticalMin THEN "error"
    ELSE IF prob > WarningMin THEN "warning"
    ELSE IF prob > InfoMin THEN "info"
    ELSE "success"

SeverityLevel(prob) ==
    IF prob >= CriticalMin THEN "error"
    ELSE IF prob >= WarningMin THEN "warning"
    ELSE IF prob >= InfoMin THEN "info"
    ELSE "success"

\* lines 148, 156, 164: "FRAUD" if p >= 0.5 else "LEGIT"
FraudMin == 5000

Label(p) == IF p >= FraudMin THEN "FRAUD" ELSE "LEGIT"

\* lines 147, 155, 163: f"{p*100:.1f}%", in tenths of a percent
Pct1(p) == (p + 5) \div 10

\* lines 118-135: the parse, the verdict and the transaction id
HeadlineSection(j) ==
    IF j.t = "invalid" THEN Raise(<<>>, "JSONDecodeError")
    ELSE LET rule == <<W("markdown", "---", "", NoNum)>> IN
    IF j.t # "dict" THEN Raise(rule, "AttributeError")
    ELSE LET result == j.d
             verdict == Verdict(result)
             prob == EnsembleProbability(result) IN
    IF ~prob.ok THEN Raise(rule, "'ensemble_probability'")
    ELSE IF prob.v.t # "num" THEN Raise(rule, "TypeError")
    ELSE LET head == rule \o
                 <<W(SeverityLevel(prob.v.n), "## verdict", PyStr(verdict), NoNum)>> IN
    IF ~Has(result, "transaction_id") THEN Raise(head, "'transaction_id'")
    ELSE Done(head \o
              <<W("caption", "Transaction ID", PyStr(result["transaction_id"]), NoNum)>>)

\* one st.metric of lines 145-166
Metric(name, v) ==
    IF v.t # "num" THEN Raise(<<>>, "TypeError")
    ELSE Done(<<W("metric", name, Label(v.n), Pct1(v.n))>>)

\* lines 138-166: the three subscripts, then the three metrics
MetricsSection(result) ==
    IF ~Has(result, "xgboost_probability") THEN Raise(<<>>, "'xgboost_probability'")
    ELSE IF ~Has(result, "random_forest_probability")
    THEN Raise(<<>>, "'random_forest_probability'")
    ELSE IF ~Has(result, "ensemble_probability")
    THEN Raise(<<>>, "'ensemble_probability'")
    ELSE Then(Metric("XGBoost", result["xgboost_probability"]),
         Then(Metric("Random Forest", result["random_forest_probability"]),
              Metric("Ensemble", result["ensemble_probability"])))

\* lines 173-176
DriftSection(result) ==
    IF Has(result, "drift_warnings") /\ Truthy(result["drift_warnings"])
    THEN <<W("warning", "Drift Warnings", "", NoNum)>> \o
         [i \in 1..Len(result["drift_warnings"].items) |->
             W("write", "-", result["drift_warnings"].items[i], NoNum)]
    ELSE <<>>

\* lines 168-179: the probability bar, the drift warnings, the raw response
TailSection(result) ==
    Done(<<W("markdown", "### Fraud Probability", "", NoNum),
           W("progress", "", "", result["ensemble_probability"].n)>>
         \o DriftSection(result)
         \o <<W("json", "Raw API Response", "", NoNum)>>)

\* lines 118-179: what a 200 response puts on the page
RenderPrediction(j) ==
    Then(HeadlineSection(j), Then(MetricsSection(j.d), TailSection(j.d)))

\* line 181
ApiErrorNoBody(r) == <<W("error", "API Error", "", NoNum)>>

ApiError(r) == <<W("error", "API Error", r.text, NoNum)>>

\* lines 184-185, 187, 189: the three except clauses of tab 1
CannotConnect1 ==
    <<W("error", "Cannot connect to API", "", NoNum),
      W("info", "The API may be sleeping. Try again in 30 seconds.", "", NoNum)>>

TimedOut1 ==
    <<W("warning", "Request timed out. The API may be waking up - try again.", "", NoNum)>>

GenericError(e) == <<W("error", "Error", e, NoNum)>>

\* lines 183-189: the first except clause that matches
Except1(e) ==
    IF IsConnectionError(e) THEN CannotConnect1
    ELSE IF IsTimeout(e) THEN TimedOut1
    ELSE GenericError(e)

\* lines 113-189: the try block of the button
HandlePredict(r) ==
    IF r.kind = "exc" THEN Except1(r.exc)
    ELSE IF r.status = 200
    THEN LET x == RenderPrediction(r.json) IN
         IF x.exc = "" THEN x.out ELSE x.out \o Except1(x.exc)
    ELSE ApiError(r)

\* ------------------------------------------------------------- model stats
\* lines 207-216: the metrics table; a table that is empty or has not 5
\* columns is skipped, naming 3 rows raises on any other number of rows
MetricsTable(model_info) ==
    LET metrics_data == Get(model_info, "metrics", Table(0, 0)) IN
    IF ~Truthy(metrics_data) THEN Done(<<>>)
    ELSE IF Len(metrics_data.items) # 5 THEN Done(<<>>)
    ELSE IF metrics_data.n # 3 THEN Raise(<<>>, "ValueError")
    ELSE Done(<<W("dataframe", "metrics", "", NoNum)>>)

\* model_info.get(key, 0) and log_summary.get(key, 0)
CounterOrNone(d, key) == Get(d, key, Num(NoNum))

Counter(d, key) == Get(d, key, Num(0))

\* lines 221, 223, 252: a metric whose value goes through a number format
Formatted(name, v) ==
    IF v.t # "num" THEN Raise(<<>>, "TypeError")
    ELSE Done(<<W("metric", name, "", v.n)>>)

\* lines 248, 250, 256: a metric given the value as it is
Plain(name, v) ==
    Done(<<W("metric", name, IF v.t = "num" THEN "" ELSE PyStr(v),
              IF v.t = "num" THEN v.n ELSE NoNum)>>)

\* lines 232-233, 236-237
Bullets(q) == [i \in 1..Len(q) |-> W("write", "-", q[i], NoNum)]

\* lines 203-237
InfoSection(j) ==
    IF j.t = "invalid" THEN Raise(<<>>, "JSONDecodeError")
    ELSE LET top == <<W("subheader", "Model Metrics (Test Set)", "", NoNum)>> IN
    IF j.t # "dict" THEN Raise(top, "AttributeError")
    ELSE LET model_info == j.d IN
    Then(Done(top),
    Then(MetricsTable(model_info),
    Then(Formatted("Training Samples", Counter(model_info, "training_samples")),
    Then(Formatted("Test Samples", Counter(model_info, "test_samples")),
         Done(<<W("metric", "Features", "",
                  Len(Get(model_info, "feature_columns", List(<<>>)).items)),
                W("subheader", "Features Used", "", NoNum),
                W("markdown", "**Categorical:**", "", NoNum)>>
              \o Bullets(Get(model_info, "categorical_columns", List(<<>>)).items)
              \o <<W("markdown", "**Numeric:**", "", NoNum)>>
              \o Bullets(Get(model_info, "numeric_columns", List(<<>>)).items))))))

\* lines 241-256
LogSection(j) ==
    IF j.t = "invalid" THEN Raise(<<>>, "JSONDecodeError")
    ELSE LET top == <<W("markdown", "---", "", NoNum),
                      W("subheader", "Inference Monitoring", "", NoNum)>> IN
    IF j.t # "dict" THEN Raise(top, "AttributeError")
    ELSE LET log_summary == j.d IN
    Then(Done(top),
    Then(Plain("Total Predictions", Counter(log_summary, "total_predictions")),
    Then(Plain("Fraud Detected", Counter(log_summary, "fraud_predictions")),
    Then(Formatted("Fraud Rate", Counter(log_summary, "fraud_rate")),
         Plain("Drift Warnings", Counter(log_summary, "predictions_with_drift"))))))

\* lines 259-260, 262-263: the except clauses of tab 2
WakingUp2 ==
    <<W("warning", "API is waking up (free tier cold start)", "", NoNum),
      W("info", "This takes 30-60 seconds on first request.", "", NoNum)>>

CannotConnect2 ==
    <<W("warning", "Cannot connect to API", "", NoNum),
      W("info", "The API may be sleeping (free tier). Try again in 30 seconds.", "", NoNum)>>

\* lines 258-265: the first except clause that matches
Except2(e) ==
    IF IsTimeout(e) THEN WakingUp2
    ELSE IF IsConnectionError(e) THEN CannotConnect2
    ELSE GenericError(e)

\* lines 202 and 240: each section is rendered on a 200 and skipped otherwise
OnOk(r, section) == IF r.status = 200 THEN section ELSE Done(<<>>)

\* lines 197-265: both fetches, then both sections, in one try block; lr is
\* NoResp when the first fetch raised and the second was never made
HandleStats(ir, lr) ==
    IF ir.kind = "exc" THEN Except2(ir.exc)
    ELSE IF lr.kind = "exc" THEN Except2(lr.exc)
    ELSE LET x == Then(OnOk(ir, InfoSection(ir.json)), OnOk(lr, LogSection(lr.json))) IN
         IF x.exc = "" THEN x.out ELSE x.out \o Except2(x.exc)

\* ------------------------------------------------------------------ inputs
SeqsUpTo(S, n) == UNION {[1..k -> S] : k \in 0..n}

Body200(D) == {Http(200, "", Dict(d)) : d \in D} \cup {Http(200, "", Invalid), Http(200, "", NonDict)}

\* category names a live catalog may hold
BackendNames == {"Books", "Grocery", "Toys"}

CategoryKeys ==
    [category_classes |->
        {Null, Num(5)} \cup {List(q) : q \in SeqsUpTo(BackendNames, MaxCats)}]

CategoryResponses == Failures \cup Body200(ObjectsOf(CategoryKeys))

\* probabilities at and next to every threshold, inside every tier, and at
\* the ends of [0,1]
Probabilities ==
    {0, 1, 1500, 2999, 3000, 3001, 4000, 4999, 5000, 5001, 6000, 6999, 7000,
     7001, 8200, 9999, 10000}

PredictKeys ==
    [transaction_id |-> {Str("t1")},
     verdict |-> {Str("Fraud"), Str("Legit")},
     ensemble_verdict |-> {Str("Suspicious")},
     ensemble_probability |-> {Null} \cup {Num(p) : p \in Probabilities},
     xgboost_probability |-> {Num(4999), Num(5000)},
     random_forest_probability |-> {Num(4999), Num(5000)},
     drift_warnings |-> {List(q) : q \in SeqsUpTo({"amount drift"}, MaxWarnings)}]

PredictResponses == Failures \cup Body200(ObjectsOf(PredictKeys))

InfoKeys ==
    [metrics |-> {Table(3, 5), Table(2, 5), Table(3, 4)},
     training_samples |-> {Num(0), Num(80000)},
     test_samples |-> {Num(0), Num(20000)},
     feature_columns |-> {List(<<"category", "amount">>)},
     categorical_columns |-> {List(<<"category">>)},
     numeric_columns |-> {List(<<"amount">>)}]

InfoResponses == Failures \cup Body200(ObjectsOf(InfoKeys))

\* fraud_rate is in tenths of a percent
LogKeys ==
    [total_predictions |-> {Num(0), Num(40)},
     fraud_predictions |-> {Num(0), Num(5)},
     fraud_rate |-> {Num(0), Num(125)},
     predictions_with_drift |-> {Num(0), Num(2)}]

LogResponses == Failures \cup Body200(ObjectsOf(LogKeys))

\* the backend asleep: every fetch runs into its timeout
Asleep == {Raised("ReadTimeout")}

\* ----------------------------------------------------------------- actions
Init ==
    /\ pc = "resolve"
    /\ categories = List(<<>>)
    /\ options = <<>>
    /\ category = ""
    /\ pressed = FALSE
    /\ posts = 0
    /\ tab1 = <<>>
    /\ tab2 = <<>>
    /\ uncaught = ""
    /\ catResp = NoResp
    /\ predResp = NoResp
    /\ infoResp = NoResp
    /\ logResp = NoResp

\* lines 46-64: the fetch, the fallback and the selectbox; the user has one
\* of the first `choices` options selected.  sorted() is outside the try
\* block: what it raises ends the run
Resolve(R, choices) ==
    /\ pc = "resolve"
    /\ \E r \in R :
        /\ catResp' = r
        /\ categories' = Categories(r)
        /\ IF Sortable(Categories(r))
           THEN /\ options' = Options(Categories(r))
                /\ \E i \in 1..choices :
                     /\ i <= Len(Options(Categories(r)))
                     /\ category' = Options(Categories(r))[i]
                /\ pc' = "form"
                /\ uncaught' = uncaught
           ELSE /\ options' = options
                /\ category' = category
                /\ pc' = "crashed"
                /\ uncaught' = "TypeError"
    /\ UNCHANGED <<pressed, posts, tab1, tab2, predResp, infoResp, logResp>>

\* lines 100-189 with the button pressed: one POST and what it leads to
Press(R) ==
    /\ pc = "form"
    /\ \E r \in R :
        /\ predResp' = r
        /\ tab1' = HandlePredict(r)
    /\ pressed' = TRUE
    /\ posts' = posts + 1
    /\ pc' = "stats"
    /\ UNCHANGED <<categories, options, category, tab2, uncaught, catResp, infoResp, logResp>>

\* line 100 with the button not pressed
NoPress ==
    /\ pc = "form"
    /\ pc' = "stats"
    /\ UNCHANGED <<categories, options, category, pressed, posts, tab1, tab2,
                   uncaught, catResp, predResp, infoResp, logResp>>

\* lines 194-265
Stats(IR, LR) ==
    /\ pc = "stats"
    /\ \E ir \in IR :
         \E lr \in (IF ir.kind = "exc" THEN {NoResp} ELSE LR) :
            /\ infoResp' = ir
            /\ logResp' = lr
            /\ tab2' = HandleStats(ir, lr)
    /\ pc' = "done"
    /\ UNCHANGED <<categories, options, category, pressed, posts, tab1,
                   uncaught, catResp, predResp>>

\* a user interaction after the run ended: streamlit runs the script again
\* from the top, on an empty page
Rerun ==
    /\ pc \in {"done", "crashed"}
    /\ pc' = "resolve"
    /\ categories' = List(<<>>)
    /\ options' = <<>>
    /\ category' = ""
    /\ pressed' = FALSE
    /\ posts' = 0
    /\ tab1' = <<>>
    /\ tab2' = <<>>
    /\ uncaught' = ""
    /\ catResp' = NoResp
    /\ predResp' = NoResp
    /\ infoResp' = NoResp
    /\ logResp' = NoResp

\* the run with the scoring backend free and the other fetches asleep
Next ==
    \/ Resolve(Asleep, 1)
    \/ Press(PredictResponses)
    \/ NoPress
    \/ Stats(Asleep, Asleep)
    \/ Rerun

Spec == Init /\ [][Next]_vars

\* the run with the category fetch and the selection free
NextCategories ==
    \/ Resolve(CategoryResponses, 10)
    \/ Press(Asleep)
    \/ NoPress
    \/ Stats(Asleep, Asleep)
    \/ Rerun

SpecCategories == Init /\ [][NextCategories]_vars

\* the run with the two fetches of the statistics tab free
NextStats ==
    \/ Resolve(Asleep, 1)
    \/ Press(Asleep)
    \/ NoPress
    \/ Stats(InfoResponses, LogResponses)
    \/ Rerun

SpecStats == Init /\ [][NextStats]_vars

\* ------------------------------------------------------------- properties
\* reading a page
Shown(page, kind, msg) == {i \in DOMAIN page : page[i].kind = kind /\ page[i].msg = msg}

Named(page, msg) == {i \in DOMAIN page : page[i].msg = msg}

Headlines == Named(tab1, "## verdict")

Levels == {"error", "warning", "info", "success"}

\* a response that is a 200 with a JSON object as its body
Ok200(r) == r.kind = "http" /\ r.status = 200 /\ r.json.t = "dict"

ScoringRan == pressed /\ pc \in {"stats", "done"}

\* the statuses a page reports, read off its text
ReportsUnreachable(page) == Named(page, "Cannot connect to API") # {}

ReportsTimedOut(page) ==
    \/ Named(page, "Request timed out. The API may be waking up - try again.") # {}
    \/ Named(page, "API is waking up (free tier cold start)") # {}

ReportsBackendError(page) ==
    Shown(page, "error", "API Error") \cup Shown(page, "error", "Error") # {}

ReportsStatus(page) ==
    ReportsUnreachable(page) \/ ReportsTimedOut(page) \/ ReportsBackendError(page)

\* C2: for every ensemble_probability p in [0,1] a 200 scoring response
\* shows its verdict at exactly one level, CRITICAL (st.error) when
\* p >= 0.70, WARNING (st.warning) when 0.50 <= p < 0.70, INFO (st.info)
\* when 0.30 <= p < 0.50, OK (st.success) when p < 0.30; a value at a
\* boundary is in the higher tier.
C2_SeverityTiers ==
    (ScoringRan /\ Ok200(predResp)
        /\ Has(predResp.json.d, "ensemble_probability")
        /\ predResp.json.d["ensemble_probability"].t = "num")
    => LET p == predResp.json.d["ensemble_probability"].n IN
       /\ Cardinality(Headlines) = 1
       /\ \A i \in Headlines :
            /\ tab1[i].kind \in Levels
            /\ tab1[i].kind = "error" <=> p >= 7000
            /\ tab1[i].kind = "warning" <=> (5000 <= p /\ p < 7000)
            /\ tab1[i].kind = "info" <=> (3000 <= p /\ p < 5000)
            /\ tab1[i].kind = "success" <=> p < 3000

\* a probability of exactly 0.70 was shown as CRITICAL
C2_Witness ==
    /\ ScoringRan /\ Ok200(predResp)
    /\ Has(predResp.json.d, "ensemble_probability")
    /\ predResp.json.d["ensemble_probability"] = Num(7000)
    /\ \E i \in Headlines : tab1[i].kind = "error"

\* C3: a 200 response that carries ensemble_probability (and the
\* transaction id) but omits xgboost_probability or
\* random_forest_probability is interpreted without an error: the verdict
\* is shown and no error status is reported.
C3_OptionalModelProbabilities ==
    (ScoringRan /\ Ok200(predResp)
        /\ Has(predResp.json.d, "ensemble_probability")
        /\ predResp.json.d["ensemble_probability"].t = "num"
        /\ Has(predResp.json.d, "transaction_id")
        /\ (~Has(predResp.json.d, "xgboost_probability")
            \/ ~Has(predResp.json.d, "random_forest_probability")))
    => /\ Headlines # {}
       /\ ~ReportsStatus(tab1)
       /\ Shown(tab1, "metric", "Ensemble") # {}

\* C4: a 200 response whose body omits ensemble_probability ends in a
\* BackendError status; no verdict, no severity level and no probability
\* (no default value) is shown for it.
C4_MissingEnsembleProbability ==
    (ScoringRan /\ Ok200(predResp) /\ ~Has(predResp.json.d, "ensemble_probability"))
    => /\ ReportsBackendError(tab1)
       /\ ~ReportsUnreachable(tab1) /\ ~ReportsTimedOut(tab1)
       /\ Headlines = {}
       /\ \A i \in DOMAIN tab1 : tab1[i].kind \notin {"metric", "progress"}

\* a full body without ensemble_probability was reported as an error
C4_Witness ==
    /\ ScoringRan /\ Ok200(predResp)
    /\ ~Has(predResp.json.d, "ensemble_probability")
    /\ Has(predResp.json.d, "verdict")
    /\ Has(predResp.json.d, "xgboost_probability")
    /\ Shown(tab1, "error", "Error") # {}

\* C5: the headline of a 200 response is the value of `verdict` when the
\* field is present, else the value of `ensemble_verdict` when present, else
\* "Unknown"; a body that lacks both and is complete otherwise is shown
\* without any error status.
C5_VerdictPrecedence ==
    (ScoringRan /\ Ok200(predResp)
        /\ Has(predResp.json.d, "ensemble_probability")
        /\ predResp.json.d["ensemble_probability"].t = "num")
    => LET d == predResp.json.d IN
       /\ Headlines # {}
       /\ \A i \in Headlines :
            tab1[i].str = IF "verdict" \in DOMAIN d THEN d["verdict"].s
                          ELSE IF "ensemble_verdict" \in DOMAIN d
                               THEN d["ensemble_verdict"].s
                               ELSE "Unknown"
       /\ ({"transaction_id", "xgboost_probability", "random_forest_probability"}
              \subseteq DOMAIN d
           => ~ReportsStatus(tab1))

\* both fields were present and the headline is the value of `verdict`
C5_Witness ==
    /\ ScoringRan /\ Ok200(predResp)
    /\ Has(predResp.json.d, "verdict")
    /\ Has(predResp.json.d, "ensemble_verdict")
    /\ predResp.json.d["verdict"] = Str("Legit")
    /\ \E i \in Headlines : tab1[i].str = "Legit"

C7_ClassifiedByCause ==
    (ScoringRan /\ predResp.kind = "exc")
    => /\ predResp.exc \in {"ConnectTimeout", "ReadTimeout"}
            => (ReportsTimedOut(tab1) /\ ~ReportsUnreachable(tab1))
       /\ predResp.exc = "ConnectionError"
            => (ReportsUnreachable(tab1) /\ ~ReportsTimedOut(tab1))

\* C7 (monitoring flow): the same classification of the two fetches of the
\* statistics tab
C7_ClassifiedByCauseStats ==
    LET e == IF infoResp.kind = "exc" THEN infoResp.exc ELSE logResp.exc IN
    (pc = "done" /\ (infoResp.kind = "exc" \/ logResp.kind = "exc"))
    => /\ e \in {"ConnectTimeout", "ReadTimeout"}
            => (ReportsTimedOut(tab2) /\ ~ReportsUnreachable(tab2))
       /\ e = "ConnectionError"
            => (ReportsUnreachable(tab2) /\ ~ReportsTimedOut(tab2))

\* a list in the order python's sorted() gives, and two lists with the same
\* elements as often
InOrder(q) == \A i, j \in DOMAIN q : i < j => CodePointRank[q[i]] <= CodePointRank[q[j]]

Count(q, x) == Cardinality({i \in DOMAIN q : q[i] = x})

SameElements(p, q) ==
    /\ Len(p) = Len(q)
    /\ \A i \in DOMAIN p : Count(p, p[i]) = Count(q, p[i])

\* the fetch answered 200 with a non-empty list of names
LiveCatalog(r) ==
    /\ Ok200(r)
    /\ Has(r.json.d, "category_classes")
    /\ r.json.d["category_classes"].t = "list"
    /\ Len(r.json.d["category_classes"].items) > 0

\* the fetch answered 200 with a category_classes that is no list and truthy
IllTypedCatalog(r) ==
    /\ Ok200(r)
    /\ Has(r.json.d, "category_classes")
    /\ r.json.d["category_classes"].t # "list"
    /\ Truthy(r.json.d["category_classes"])

C6_WitnessLive ==
    /\ pc = "form"
    /\ LiveCatalog(catResp)
    /\ catResp.json.d["category_classes"].items = <<"Toys", "Books">>
    /\ options = <<"Books", "Toys">>

\* a fetch or a body that failed: an exception, a status other than 200, a
\* body that does not parse or is no JSON object
Failed(r) == r.kind = "exc" \/ (r.kind = "http" /\ (r.status # 200 \/ r.json.t # "dict"))

\* C10: every backend-facing failure of the three flows ends in a status on
\* the page and the run goes on to its end; none propagates as an uncaught
\* exception; only a failure of category resolution is not reported.
C10_AllFailuresReported ==
    /\ uncaught = ""
    /\ pc # "crashed"
    /\ (ScoringRan /\ Failed(predResp)) => ReportsStatus(tab1)
    /\ (pc = "done" /\ (Failed(infoResp) \/ Failed(logResp))) => ReportsStatus(tab2)

\* the data of a fetch on the page
InfoSurfaced == Named(tab2, "Model Metrics (Test Set)") # {}

LogSurfaced == Named(tab2, "Inference Monitoring") # {}

\* the four outcomes of a fetch: a 200 whose section renders to its end, a
\* status other than 200, a timeout, a connection failure (or, for the
\* second fetch, no request after the first one raised)
Outcome(r, section) ==
    \/ r.kind \in {"exc", "none"}
    \/ r.kind = "http" /\ r.status # 200
    \/ Ok200(r) /\ section.exc = ""

\* C1: in the statistics tab the failure of one fetch never blocks the
\* other: for every combination of the outcomes success, non-200, timeout
\* and connection failure of the two fetches, the data of a fetch that
\* succeeded is on the page; with model-info a success and logs/summary
\* timed out, the model info is shown.
C1_FetchesIndependent ==
    (pc = "done" /\ Outcome(infoResp, InfoSection(infoResp.json))
                 /\ Outcome(logResp, LogSection(logResp.json)))
    => /\ Ok200(infoResp) => InfoSurfaced
       /\ Ok200(logResp) => LogSurfaced

\* C1, the part the code keeps: a status other than 200 of one fetch does
\* not hide the section of the other
C1_Non200DoesNotBlock ==
    (pc = "done" /\ infoResp.kind = "http" /\ logResp.kind = "http")
    => /\ (Ok200(infoResp) /\ logResp.status # 200) => InfoSurfaced
       /\ (Ok200(logResp) /\ infoResp.status # 200) => LogSurfaced

\* the counters of the statistics tab: the key of the response and the name
\* of its metric
InfoCounters == {<<"training_samples", "Training Samples">>, <<"test_samples", "Test Samples">>}

LogCounters ==
    {<<"total_predictions", "Total Predictions">>, <<"fraud_predictions", "Fraud Detected">>,
     <<"fraud_rate", "Fraud Rate">>, <<"predictions_with_drift", "Drift Warnings">>}

\* every metric named c[2] on the page satisfies P(widget, response body)
ForCounters(C, r, P(_, _)) ==
    \A c \in C : \A i \in Shown(tab2, "metric", c[2]) : P(tab2[i], c[1])

====
